---- MODULE Spec2Model ----
(***************************************************************************)
(* A model of paddleslim/prune/pruner.py: the Pruner class, its prune      *)
(* entry point, the forward search of related operators, the per-operator  *)
(* pruning rules, the sibling ("brother") search and the tensor pruning.   *)
(*                                                                         *)
(* A dense array is a record [shape, data]: data is the row-major list of  *)
(* its elements.  Axes and channel indices are zero-based as in the code;  *)
(* TLA+ sequences are one-based, so axis a of a shape s is s[a + 1].       *)
(***************************************************************************)
EXTENDS Integers, Sequences, FiniteSets, TLC

\* ------------------------------------------------------------------------
\* Bounds of the model
\* ------------------------------------------------------------------------

\* The longest list of (parameter, ratio) requests of one prune call.
MaxReqs == 2

\* ------------------------------------------------------------------------
\* Small helpers
\* ------------------------------------------------------------------------

Abs(x) == IF x < 0 THEN -x ELSE x

Range(s) == {s[k] : k \in 1..Len(s)}

RECURSIVE SumSeq(_)
SumSeq(s) == IF s = <<>> THEN 0 ELSE Head(s) + SumSeq(Tail(s))

RECURSIVE ProdSeq(_)
ProdSeq(s) == IF s = <<>> THEN 1 ELSE Head(s) * ProdSeq(Tail(s))

RECURSIVE Flatten(_)
Flatten(ss) == IF ss = <<>> THEN <<>> ELSE Head(ss) \o Flatten(Tail(ss))

\* Position (one-based) of the first occurrence of x in s; 0 when absent.
RECURSIVE IndexOf(_, _)
IndexOf(s, x) ==
    IF s = <<>> THEN 0
    ELSE IF Head(s) = x THEN 1
    ELSE LET r == IndexOf(Tail(s), x) IN IF r = 0 THEN 0 ELSE r + 1

\* A ratio is a number of quarters q, standing for the float q / 4 (exact).
\* int(round(n * ratio)): the nearest integer, a half rounded to even.
Round(n, q) ==
    LET num == n * q
        lo  == num \div 4
        rem == num % 4
    IN  IF rem < 2 THEN lo
        ELSE IF rem > 2 THEN lo + 1
        ELSE IF lo % 2 = 0 THEN lo ELSE lo + 1

\* ------------------------------------------------------------------------
\* Dense arrays
\* ------------------------------------------------------------------------

Tensor(s, d) == [shape |-> s, data |-> d]

\* Number of elements after axis a in one step along axis a.
Stride(shape, a) == ProdSeq(SubSeq(shape, a + 2, Len(shape)))

\* The index on axis a of the element at (one-based) flat position f.
Coord(shape, a, f) == ((f - 1) \div Stride(shape, a)) % shape[a + 1]

\* sum(|param|) over every axis except `axis`, for channel c.
L1Score(t, axis, c) ==
    SumSeq([f \in 1..Len(t.data) |->
              IF Coord(t.shape, axis, f) = c THEN Abs(t.data[f]) ELSE 0])

\* Slice c of t along `axis` is entirely zero.
ZeroSlice(t, axis, c) ==
    \A f \in 1..Len(t.data) : Coord(t.shape, axis, f) = c => t.data[f] = 0

\* ------------------------------------------------------------------------
\* The graphs the model prunes (the caller's program and scope)
\* ------------------------------------------------------------------------

\* An operator: its type tag, all_inputs() and all_outputs() as lists of
\* variable names in the order the wrapper returns them (by slot name).
Op(t, i, o) == [type |-> t, ins |-> i, outs |-> o]

\* Deterministic test data: small signed integers with equal and zero sums.
Gen(len, a) == [f \in 1..len |-> ((f * a) % 7) - 3]

Conv(w, x, y) == Op("conv2d", <<w, x>>, <<y>>)

BatchNorm(p, x, y) ==
    Op("batch_norm",
       <<p \o ".b", p \o ".mean", p \o ".scale", p \o ".var", x>>,
       <<p \o ".mean", p \o ".sm", p \o ".sv", p \o ".var", y>>)

BnShapes(p, n) ==
    (p \o ".b" :> <<n>>) @@ (p \o ".mean" :> <<n>>) @@ (p \o ".scale" :> <<n>>)
    @@ (p \o ".var" :> <<n>>) @@ (p \o ".sm" :> <<n>>) @@ (p \o ".sv" :> <<n>>)

BnData(p, n) ==
    (p \o ".b" :> Gen(n, 2)) @@ (p \o ".mean" :> Gen(n, 3))
    @@ (p \o ".scale" :> Gen(n, 4)) @@ (p \o ".var" :> Gen(n, 5))

BnNames(p) == {p \o ".b", p \o ".mean", p \o ".scale", p \o ".var"}

\* conv A (n filters) -> batch_norm -> conv B -> batch_norm.
ChainGraph(n, aShape, bShape) ==
    [ops |-> << Conv("A.w", "x", "A.out"),
                BatchNorm("bn1", "A.out", "bn1.out"),
                Conv("B.w", "bn1.out", "B.out"),
                BatchNorm("bn2", "B.out", "bn2.out") >>,
     params  |-> {"A.w", "B.w"} \cup BnNames("bn1") \cup BnNames("bn2"),
     persist |-> {"A.w", "B.w"} \cup BnNames("bn1") \cup BnNames("bn2"),
     targets |-> {"A.w", "B.w"},
     shapes  |-> ("x" :> <<-1, aShape[2], 2, 2>>) @@ ("A.w" :> aShape)
                 @@ ("A.out" :> <<-1, n, 2, 2>>) @@ BnShapes("bn1", n)
                 @@ ("bn1.out" :> <<-1, n, 2, 2>>) @@ ("B.w" :> bShape)
                 @@ ("B.out" :> <<-1, bShape[1], 2, 2>>)
                 @@ BnShapes("bn2", bShape[1])
                 @@ ("bn2.out" :> <<-1, bShape[1], 2, 2>>),
     data    |-> ("A.w" :> Gen(ProdSeq(aShape), 3))
                 @@ ("B.w" :> Gen(ProdSeq(bShape), 5))
                 @@ BnData("bn1", n) @@ BnData("bn2", bShape[1]),
     groups  |-> <<0, 0, 0, 0>>]

\* conv A -> relu \                                                       
\*                  concat -> conv D          (A and B feed one concat)
\* conv B -> relu /
ConcatGraph ==
    [ops |-> << Conv("A.w", "x", "A.out"),
                Op("relu", <<"A.out">>, <<"A.act">>),
                Conv("B.w", "x", "B.out"),
                Op("relu", <<"B.out">>, <<"B.act">>),
                Op("concat", <<"A.act", "B.act">>, <<"cat.out">>),
                Conv("D.w", "cat.out", "D.out") >>,
     params  |-> {"A.w", "B.w", "D.w"},
     persist |-> {"A.w", "B.w", "D.w"},
     targets |-> {"A.w", "B.w"},
     shapes  |-> ("x" :> <<-1, 2, 2, 2>>) @@ ("A.w" :> <<4, 2, 1, 1>>)
                 @@ ("A.out" :> <<-1, 4, 2, 2>>) @@ ("A.act" :> <<-1, 4, 2, 2>>)
                 @@ ("B.w" :> <<3, 2, 1, 1>>) @@ ("B.out" :> <<-1, 3, 2, 2>>)
                 @@ ("B.act" :> <<-1, 3, 2, 2>>) @@ ("cat.out" :> <<-1, 7, 2, 2>>)
                 @@ ("D.w" :> <<2, 7, 1, 1>>) @@ ("D.out" :> <<-1, 2, 2, 2>>),
     data    |-> ("A.w" :> Gen(8, 3)) @@ ("B.w" :> Gen(6, 2))
                 @@ ("D.w" :> Gen(14, 5)),
     groups  |-> <<0, 0, 0, 0, 0, 0>>]

\* conv A -> elementwise_add (bias) -> depthwise_conv2d -> conv E.
DepthwiseGraph ==
    [ops |-> << Conv("A.w", "x", "A.out"),
                Op("elementwise_add", <<"A.out", "A.bias">>, <<"A.sum">>),
                Op("depthwise_conv2d", <<"dw.w", "A.sum">>, <<"dw.out">>),
                Conv("E.w", "dw.out", "E.out") >>,
     params  |-> {"A.w", "A.bias", "dw.w", "E.w"},
     persist |-> {"A.w", "A.bias", "dw.w", "E.w"},
     targets |-> {"A.w", "dw.w"},
     shapes  |-> ("x" :> <<-1, 2, 2, 2>>) @@ ("A.w" :> <<4, 2, 1, 1>>)
                 @@ ("A.out" :> <<-1, 4, 2, 2>>) @@ ("A.bias" :> <<4>>)
                 @@ ("A.sum" :> <<-1, 4, 2, 2>>) @@ ("dw.w" :> <<4, 1, 1, 2>>)
                 @@ ("dw.out" :> <<-1, 4, 2, 2>>) @@ ("E.w" :> <<2, 4, 1, 1>>)
                 @@ ("E.out" :> <<-1, 2, 2, 2>>),
     data    |-> ("A.w" :> Gen(8, 3)) @@ ("A.bias" :> Gen(4, 2))
                 @@ ("dw.w" :> Gen(8, 4)) @@ ("E.w" :> Gen(8, 5)),
     groups  |-> <<0, 0, 4, 0>>]

\* conv A \                                                               
\*          elementwise_add -> relu -> conv D     (A and B are siblings)
\* conv B /
\* B.w has two all-zero filters (as a lazily pruned network has).
SiblingGraph ==
    [ops |-> << Conv("A.w", "x", "A.out"),
                Conv("B.w", "x", "B.out"),
                Op("elementwise_add", <<"A.out", "B.out">>, <<"s.out">>),
                Op("relu", <<"s.out">>, <<"s.act">>),
                Conv("D.w", "s.act", "D.out") >>,
     params  |-> {"A.w", "B.w", "D.w"},
     persist |-> {"A.w", "B.w", "D.w"},
     targets |-> {"A.w", "B.w"},
     shapes  |-> ("x" :> <<-1, 2, 2, 2>>) @@ ("A.w" :> <<6, 2, 1, 1>>)
                 @@ ("A.out" :> <<-1, 6, 2, 2>>) @@ ("B.w" :> <<6, 2, 1, 1>>)
                 @@ ("B.out" :> <<-1, 6, 2, 2>>) @@ ("s.out" :> <<-1, 6, 2, 2>>)
                 @@ ("s.act" :> <<-1, 6, 2, 2>>) @@ ("D.w" :> <<2, 6, 1, 1>>)
                 @@ ("D.out" :> <<-1, 2, 2, 2>>),
     data    |-> ("A.w" :> Gen(12, 3))
                 @@ ("B.w" :> <<2, -1, 0, 0, 0, 0, 1, 3, 0, 0, -2, 2>>)
                 @@ ("D.w" :> Gen(12, 5)),
     groups  |-> <<0, 0, 0, 0, 0>>]

\* conv A -> elementwise_add (bias) -> conv B with the backward pass and one
\* optimizer operator per parameter.  The optimizer's persistable outputs
\* other than the parameter are its accumulators: pow (shape [1]) when
\* withPow, and a moment of the parameter's shape.
TrainGraph(optType, withPow) ==
    LET accs(p) == IF withPow THEN <<p \o ".pow", p \o ".m">> ELSE <<p \o ".m">>
        opt(p)  == Op(optType, accs(p) \o <<p \o "@G", "lr", p>>, accs(p) \o <<p>>)
        names   == {"A.w", "A.w.m", "A.b", "A.b.m", "B.w", "B.w.m", "lr"}
                   \cup (IF withPow THEN {"A.w.pow", "A.b.pow", "B.w.pow"} ELSE {})
    IN
    [ops |-> << Conv("A.w", "x", "A.out"),
                Op("elementwise_add", <<"A.out", "A.b">>, <<"A.sum">>),
                Conv("B.w", "A.sum", "B.out"),
                Op("conv2d_grad", <<"B.w", "A.sum", "B.out@G">>, <<"B.w@G", "A.sum@G">>),
                Op("elementwise_add_grad", <<"A.sum@G", "A.out", "A.b">>,
                   <<"A.out@G", "A.b@G">>),
                Op("conv2d_grad", <<"A.w", "x", "A.out@G">>, <<"A.w@G">>),
                opt("A.w"),
                opt("A.b"),
                opt("B.w") >>,
     params  |-> {"A.w", "A.b", "B.w"},
     persist |-> names,
     targets |-> {"A.w"},
     shapes  |-> ("x" :> <<-1, 2, 2, 2>>) @@ ("A.w" :> <<4, 2, 1, 1>>)
                 @@ ("A.out" :> <<-1, 4, 2, 2>>) @@ ("A.b" :> <<4>>)
                 @@ ("A.sum" :> <<-1, 4, 2, 2>>) @@ ("B.w" :> <<2, 4, 1, 1>>)
                 @@ ("B.out" :> <<-1, 2, 2, 2>>) @@ ("B.out@G" :> <<-1, 2, 2, 2>>)
                 @@ ("A.sum@G" :> <<-1, 4, 2, 2>>) @@ ("A.out@G" :> <<-1, 4, 2, 2>>)
                 @@ ("A.w@G" :> <<4, 2, 1, 1>>) @@ ("A.b@G" :> <<4>>)
                 @@ ("B.w@G" :> <<2, 4, 1, 1>>) @@ ("lr" :> <<1>>)
                 @@ ("A.w.m" :> <<4, 2, 1, 1>>) @@ ("A.b.m" :> <<4>>)
                 @@ ("B.w.m" :> <<2, 4, 1, 1>>) @@ ("A.w.pow" :> <<1>>)
                 @@ ("A.b.pow" :> <<1>>) @@ ("B.w.pow" :> <<1>>),
     data    |-> ("A.w" :> Gen(8, 3)) @@ ("A.b" :> Gen(4, 2)) @@ ("B.w" :> Gen(8, 5))
                 @@ ("A.w.m" :> Gen(8, 2)) @@ ("A.b.m" :> Gen(4, 3))
                 @@ ("B.w.m" :> Gen(8, 4)) @@ ("A.w.pow" :> <<1>>)
                 @@ ("A.b.pow" :> <<1>>) @@ ("B.w.pow" :> <<1>>) @@ ("lr" :> <<1>>),
     groups  |-> <<0, 0, 0, 0, 0, 0, 0, 0, 0>>]

\* conv A -> relu -> mul (fully connected) over a 1 x 2 feature map.
FcGraph ==
    [ops |-> << Conv("A.w", "x", "A.out"),
                Op("relu", <<"A.out">>, <<"A.act">>),
                Op("mul", <<"A.act", "fc.w">>, <<"fc.out">>) >>,
     params  |-> {"A.w", "fc.w"},
     persist |-> {"A.w", "fc.w"},
     targets |-> {"A.w"},
     shapes  |-> ("x" :> <<-1, 2, 1, 2>>) @@ ("A.w" :> <<4, 2, 1, 1>>)
                 @@ ("A.out" :> <<-1, 4, 1, 2>>) @@ ("A.act" :> <<-1, 4, 1, 2>>)
                 @@ ("fc.w" :> <<8, 2>>) @@ ("fc.out" :> <<-1, 2>>),
     data    |-> ("A.w" :> Gen(8, 3)) @@ ("fc.w" :> Gen(16, 5)),
     groups  |-> <<0, 0, 0>>]

\* conv A -> relu -> mul over a 3 x 3 feature map; the filters of A with the
\* smallest sums are 0 and 2.
Fc9Graph ==
    [ops |-> << Conv("A.w", "x", "A.out"),
                Op("relu", <<"A.out">>, <<"A.act">>),
                Op("mul", <<"A.act", "fc.w">>, <<"fc.out">>) >>,
     params  |-> {"A.w", "fc.w"},
     persist |-> {"A.w", "fc.w"},
     targets |-> {"A.w"},
     shapes  |-> ("x" :> <<-1, 1, 3, 3>>) @@ ("A.w" :> <<4, 1, 1, 1>>)
                 @@ ("A.out" :> <<-1, 4, 3, 3>>) @@ ("A.act" :> <<-1, 4, 3, 3>>)
                 @@ ("fc.w" :> <<36, 1>>) @@ ("fc.out" :> <<-1, 1>>),
     data    |-> ("A.w" :> <<0, 3, 1, 2>>) @@ ("fc.w" :> Gen(36, 5)),
     groups  |-> <<0, 0, 0>>]

\* conv A -> relu \
\* conv B -> relu -- concat -> relu (h) -> conv F
\* conv C -> relu /                   h \
\*                      conv E -> relu -- concat -> conv D
\* The first concat has inputs of widths 4, 6 and 5; the filters of B with
\* the smallest sums are 1 and 3.
Concat3Graph ==
    [ops |-> << Conv("A.w", "x", "A.out"),
                Op("relu", <<"A.out">>, <<"A.act">>),
                Conv("B.w", "x", "B.out"),
                Op("relu", <<"B.out">>, <<"B.act">>),
                Conv("C.w", "x", "C.out"),
                Op("relu", <<"C.out">>, <<"C.act">>),
                Op("concat", <<"A.act", "B.act", "C.act">>, <<"cat.out">>),
                Op("relu", <<"cat.out">>, <<"h">>),
                Conv("F.w", "h", "F.out"),
                Conv("E.w", "x", "E.out"),
                Op("relu", <<"E.out">>, <<"E.act">>),
                Op("concat", <<"E.act", "h">>, <<"cat2.out">>),
                Conv("D.w", "cat2.out", "D.out") >>,
     params  |-> {"A.w", "B.w", "C.w", "D.w", "E.w", "F.w"},
     persist |-> {"A.w", "B.w", "C.w", "D.w", "E.w", "F.w"},
     targets |-> {"B.w"},
     shapes  |-> ("x" :> <<-1, 1, 1, 1>>) @@ ("A.w" :> <<4, 1, 1, 1>>)
                 @@ ("A.out" :> <<-1, 4, 1, 1>>) @@ ("A.act" :> <<-1, 4, 1, 1>>)
                 @@ ("B.w" :> <<6, 1, 1, 1>>) @@ ("B.out" :> <<-1, 6, 1, 1>>)
                 @@ ("B.act" :> <<-1, 6, 1, 1>>) @@ ("C.w" :> <<5, 1, 1, 1>>)
                 @@ ("C.out" :> <<-1, 5, 1, 1>>) @@ ("C.act" :> <<-1, 5, 1, 1>>)
                 @@ ("cat.out" :> <<-1, 15, 1, 1>>) @@ ("h" :> <<-1, 15, 1, 1>>)
                 @@ ("F.w" :> <<1, 15, 1, 1>>) @@ ("F.out" :> <<-1, 1, 1, 1>>)
                 @@ ("E.w" :> <<2, 1, 1, 1>>) @@ ("E.out" :> <<-1, 2, 1, 1>>)
                 @@ ("E.act" :> <<-1, 2, 1, 1>>) @@ ("cat2.out" :> <<-1, 17, 1, 1>>)
                 @@ ("D.w" :> <<1, 17, 1, 1>>) @@ ("D.out" :> <<-1, 1, 1, 1>>),
     data    |-> ("A.w" :> Gen(4, 3)) @@ ("B.w" :> <<3, 0, 2, 1, 3, 2>>)
                 @@ ("C.w" :> Gen(5, 2)) @@ ("D.w" :> Gen(17, 5))
                 @@ ("E.w" :> Gen(2, 4)) @@ ("F.w" :> Gen(15, 3)),
     groups  |-> <<0, 0, 0, 0, 0, 0, 0, 0, 0, 0, 0, 0, 0>>]

\* conv A ----------\
\*                    concat -> conv D    (A's output is an input of the concat)
\* conv B -> relu --/
DirectConcatGraph ==
    [ops |-> << Conv("A.w", "x", "A.out"),
                Conv("B.w", "x", "B.out"),
                Op("relu", <<"B.out">>, <<"B.act">>),
                Op("concat", <<"A.out", "B.act">>, <<"cat.out">>),
                Conv("D.w", "cat.out", "D.out") >>,
     params  |-> {"A.w", "B.w", "D.w"},
     persist |-> {"A.w", "B.w", "D.w"},
     targets |-> {"A.w"},
     shapes  |-> ("x" :> <<-1, 1, 1, 1>>) @@ ("A.w" :> <<2, 1, 1, 1>>)
                 @@ ("A.out" :> <<-1, 2, 1, 1>>) @@ ("B.w" :> <<2, 1, 1, 1>>)
                 @@ ("B.out" :> <<-1, 2, 1, 1>>) @@ ("B.act" :> <<-1, 2, 1, 1>>)
                 @@ ("cat.out" :> <<-1, 4, 1, 1>>) @@ ("D.w" :> <<1, 4, 1, 1>>)
                 @@ ("D.out" :> <<-1, 1, 1, 1>>),
     data    |-> ("A.w" :> <<1, 2>>) @@ ("B.w" :> <<2, 1>>) @@ ("D.w" :> Gen(4, 5)),
     groups  |-> <<0, 0, 0, 0, 0>>]

\*                   /-> relu (h1) \
\* conv A -> relu (h0)               add (s) -> split (s1, s2) -> add (t) -> conv D
\*                   \-> relu (h2) /
\* with a scale operator that rewrites t in place and an assign operator
\* that writes t back to h0: a diamond, a double edge and two cycles.
DiamondGraph ==
    [ops |-> << Conv("A.w", "x", "A.out"),
                Op("relu", <<"A.out">>, <<"h0">>),
                Op("relu", <<"h0">>, <<"h1">>),
                Op("relu", <<"h0">>, <<"h2">>),
                Op("elementwise_add", <<"h1", "h2">>, <<"s">>),
                Op("split", <<"s">>, <<"s1", "s2">>),
                Op("elementwise_add", <<"s1", "s2">>, <<"t">>),
                Op("scale", <<"t">>, <<"t">>),
                Op("assign", <<"t">>, <<"h0">>),
                Conv("D.w", "t", "D.out") >>,
     params  |-> {"A.w", "D.w"},
     persist |-> {"A.w", "D.w"},
     targets |-> {"A.w"},
     shapes  |-> ("x" :> <<-1, 1, 1, 1>>) @@ ("A.w" :> <<4, 1, 1, 1>>)
                 @@ ("A.out" :> <<-1, 4, 1, 1>>) @@ ("h0" :> <<-1, 4, 1, 1>>)
                 @@ ("h1" :> <<-1, 4, 1, 1>>) @@ ("h2" :> <<-1, 4, 1, 1>>)
                 @@ ("s" :> <<-1, 4, 1, 1>>) @@ ("s1" :> <<-1, 4, 1, 1>>)
                 @@ ("s2" :> <<-1, 4, 1, 1>>) @@ ("t" :> <<-1, 4, 1, 1>>)
                 @@ ("D.w" :> <<1, 4, 1, 1>>) @@ ("D.out" :> <<-1, 1, 1, 1>>),
     data    |-> ("A.w" :> Gen(4, 3)) @@ ("D.w" :> Gen(4, 5)),
     groups  |-> <<0, 0, 0, 0, 0, 0, 0, 0, 0, 0>>]

\* conv A \
\*          elementwise_add -> conv D
\* conv B <
\*          elementwise_add -> conv E     (B is a sibling of A and of C)
\* conv C /
Sibling3Graph ==
    [ops |-> << Conv("A.w", "x", "A.out"),
                Conv("B.w", "x", "B.out"),
                Conv("C.w", "x", "C.out"),
                Op("elementwise_add", <<"A.out", "B.out">>, <<"s1">>),
                Conv("D.w", "s1", "D.out"),
                Op("elementwise_add", <<"B.out", "C.out">>, <<"s2">>),
                Conv("E.w", "s2", "E.out") >>,
     params  |-> {"A.w", "B.w", "C.w", "D.w", "E.w"},
     persist |-> {"A.w", "B.w", "C.w", "D.w", "E.w"},
     targets |-> {"A.w", "C.w"},
     shapes  |-> ("x" :> <<-1, 1, 1, 1>>) @@ ("A.w" :> <<4, 1, 1, 1>>)
                 @@ ("A.out" :> <<-1, 4, 1, 1>>) @@ ("B.w" :> <<4, 1, 1, 1>>)
                 @@ ("B.out" :> <<-1, 4, 1, 1>>) @@ ("C.w" :> <<4, 1, 1, 1>>)
                 @@ ("C.out" :> <<-1, 4, 1, 1>>) @@ ("s1" :> <<-1, 4, 1, 1>>)
                 @@ ("D.w" :> <<1, 4, 1, 1>>) @@ ("D.out" :> <<-1, 1, 1, 1>>)
                 @@ ("s2" :> <<-1, 4, 1, 1>>) @@ ("E.w" :> <<1, 4, 1, 1>>)
                 @@ ("E.out" :> <<-1, 1, 1, 1>>),
     data    |-> ("A.w" :> Gen(4, 3)) @@ ("B.w" :> Gen(4, 2)) @@ ("C.w" :> Gen(4, 4))
                 @@ ("D.w" :> Gen(4, 5)) @@ ("E.w" :> Gen(4, 6)),
     groups  |-> <<0, 0, 0, 0, 0, 0, 0>>]

\* conv A -> relu, with A's backward operator, a scale operator that decays
\* A's weight in place, and an adam operator whose accumulators are pow
\* (shape [1]) and a moment of A's shape; nothing downstream of A has a
\* parameter.
AdamTailGraph ==
    [ops |-> << Conv("A.w", "x", "A.out"),
                Op("relu", <<"A.out">>, <<"A.act">>),
                Op("conv2d_grad", <<"A.w", "x", "A.out@G">>, <<"A.w@G">>),
                Op("scale", <<"A.w">>, <<"A.w">>),
                Op("adam", <<"A.w.pow", "A.w.m", "A.w@G", "lr", "A.w">>,
                   <<"A.w.pow", "A.w.m", "A.w">>) >>,
     params  |-> {"A.w"},
     persist |-> {"A.w", "A.w.pow", "A.w.m", "lr"},
     targets |-> {"A.w"},
     shapes  |-> ("x" :> <<-1, 1, 1, 1>>) @@ ("A.w" :> <<4, 1, 1, 1>>)
                 @@ ("A.out" :> <<-1, 4, 1, 1>>) @@ ("A.act" :> <<-1, 4, 1, 1>>)
                 @@ ("A.out@G" :> <<-1, 4, 1, 1>>) @@ ("A.w@G" :> <<4, 1, 1, 1>>)
                 @@ ("A.w.pow" :> <<1>>) @@ ("A.w.m" :> <<4, 1, 1, 1>>)
                 @@ ("lr" :> <<1>>),
     data    |-> ("A.w" :> Gen(4, 3)) @@ ("A.w.pow" :> <<1>>)
                 @@ ("A.w.m" :> Gen(4, 2)) @@ ("lr" :> <<1>>),
     groups  |-> <<0, 0, 0, 0, 0>>]

\* The graphs, by name.
GraphTable ==
    ("chain" :> ChainGraph(4, <<4, 2, 1, 2>>, <<3, 4, 2, 1>>))
    @@ ("chain32" :> [ChainGraph(32, <<32, 1, 1, 1>>, <<2, 32, 1, 1>>)
                        EXCEPT !.targets = {"A.w"}])
    @@ ("concat" :> ConcatGraph)
    @@ ("depthwise" :> DepthwiseGraph)
    @@ ("sibling" :> SiblingGraph)
    @@ ("momentum" :> TrainGraph("momentum", FALSE))
    @@ ("adam" :> TrainGraph("adam", TRUE))
    @@ ("fc" :> FcGraph)
    @@ ("fc9" :> Fc9Graph)
    @@ ("concat3" :> Concat3Graph)
    @@ ("direct" :> DirectConcatGraph)
    @@ ("diamond" :> DiamondGraph)
    @@ ("sibling3" :> Sibling3Graph)
    @@ ("adamtail" :> AdamTailGraph)

GraphNames == {"chain", "chain32", "concat", "depthwise", "sibling",
               "momentum", "adam", "fc", "fc9", "concat3", "direct", "diamond",
               "sibling3", "adamtail"}

Graph(g) == GraphTable[g]

\* ------------------------------------------------------------------------
\* The graph wrapper's queries (paddleslim.core, used by the pruner)
\* ------------------------------------------------------------------------

FoldL(F(_, _), acc, s) ==
    LET RECURSIVE go(_, _)
        go(a, k) == IF k > Len(s) THEN a ELSE go(F(a, s[k]), k + 1)
    IN  go(acc, 1)

Idxs(n) == [k \in 1..n |-> k]

\* The elements of a finite set, in some order.
RECURSIVE SetToSeq(_)
SetToSeq(A) ==
    IF A = {} THEN <<>>
    ELSE LET x == CHOOSE y \in A : TRUE IN <<x>> \o SetToSeq(A \ {x})

\* Every variable name of the graph.
VarNames(G) ==
    UNION {Range(G.ops[k].ins) \cup Range(G.ops[k].outs) : k \in 1..Len(G.ops)}

\* OpWrapper.is_bwd_op: the type ends with "_grad".
IsBwdOp(op) == op.type \in {"conv2d_grad", "depthwise_conv2d_grad", "relu_grad",
                            "batch_norm_grad", "elementwise_add_grad",
                            "concat_grad", "mul_grad"}

\* OpWrapper.is_opt_op: the type is one of the optimizer operators.
IsOptOp(op) == op.type \in {"sgd", "momentum", "adam", "adamax", "adagrad",
                            "rmsprop", "ftrl", "lars_momentum"}

\* GraphWrapper.next_ops(op): for p in ops, for out_var in op's outputs, p is
\* listed once for every output of op it consumes.
NextOps(G, k) ==
    Flatten([p \in 1..Len(G.ops) |->
        Flatten([j \in 1..Len(G.ops[k].outs) |->
            IF G.ops[k].outs[j] \in Range(G.ops[p].ins) THEN <<p>> ELSE <<>>])])

\* GraphWrapper.pre_ops(op): p is listed once for every input of op it produces.
PreOps(G, k) ==
    Flatten([p \in 1..Len(G.ops) |->
        Flatten([j \in 1..Len(G.ops[k].ins) |->
            IF G.ops[k].ins[j] \in Range(G.ops[p].outs) THEN <<p>> ELSE <<>>])])

\* VarWrapper.outputs(): the operators that read the variable, in graph order.
VarOutputs(G, name) ==
    SelectSeq(Idxs(Len(G.ops)), LAMBDA k : name \in Range(G.ops[k].ins))

\* GraphWrapper.get_param_by_op(op): the parameters among the op's inputs.
GetParamByOp(G, k) ==
    SelectSeq(G.ops[k].ins, LAMBDA v : v \in G.params)

\* ------------------------------------------------------------------------
\* Pruner._prune_tensor and Pruner._cal_pruned_idx
\* ------------------------------------------------------------------------

\* The elements of t whose index on `axis` is not in mask, in row-major order.
DropSlices(t, axis, mask) ==
    LET pairs == [f \in 1..Len(t.data) |-> <<f, t.data[f]>>]
        kept  == SelectSeq(pairs, LAMBDA pr : Coord(t.shape, axis, pr[1]) \notin mask)
    IN  [j \in 1..Len(kept) |-> kept[j][2]]

\* The IndexError of an index that is out of bounds for the axis (line 658),
\* told apart from the IndexError of an axis the shape does not have.
OutOfBounds == "IndexError(index)"

IsIndexError(e) == e \in {"IndexError", OutOfBounds}

\* _prune_tensor(tensor, pruned_idx, pruned_axis, lazy): [err, t].
\*   mask = np.zeros(tensor.shape[pruned_axis]); mask[pruned_idx] = True
\* raises IndexError when the axis or an index is out of range, and
\* np.apply_along_axis raises ValueError when another dimension is 0.
PruneTensor(t, pruned_idx, pruned_axis, lazy) ==
    IF pruned_axis >= Len(t.shape) THEN [err |-> "IndexError", t |-> t]
    ELSE
      LET n    == t.shape[pruned_axis + 1]
          mask == Range(pruned_idx)
      IN  IF \E i \in mask : i >= n \/ i < 0 - n
            THEN [err |-> OutOfBounds, t |-> t]
          ELSE IF \E a \in 1..Len(t.shape) : a # pruned_axis + 1 /\ t.shape[a] = 0
            THEN [err |-> "ValueError", t |-> t]
          ELSE IF lazy
            THEN [err |-> "none",
                  t |-> Tensor(t.shape,
                          [f \in 1..Len(t.data) |->
                             IF Coord(t.shape, pruned_axis, f) \in mask
                               THEN 0 ELSE t.data[f]])]
          ELSE [err |-> "none",
                t |-> Tensor([t.shape EXCEPT ![pruned_axis + 1] = n - Cardinality(mask)],
                             DropSlices(t, pruned_axis, mask))]

\* A variant that lists the channels in descending order of score.
ArgSortDescending(scores, tie) ==
    LET RECURSIVE pick(_)
        pick(rest) ==
            IF rest = {} THEN <<>>
            ELSE LET m == CHOOSE a \in rest : \A b \in rest \ {a} :
                             \/ scores[a + 1] > scores[b + 1]
                             \/ scores[a + 1] = scores[b + 1] /\ a < b
                 IN  <<m>> \o pick(rest \ {m})
    IN  pick(0..(Len(scores) - 1))

\* criterions.argsort(): the channel indices in ascending order of score.
\* numpy's default sort is not stable, so the order among equal scores is
\* the build's: `tie` is "asc" (lower index first) or "desc".
ArgSort(scores, tie) ==
    LET n == Len(scores)
        Before(a, b) ==
            \/ scores[a + 1] < scores[b + 1]
            \/ /\ scores[a + 1] = scores[b + 1]
               /\ IF tie = "asc" THEN a < b ELSE a > b
        RECURSIVE pick(_)
        pick(rest) ==
            IF rest = {} THEN <<>>
            ELSE LET m == CHOOSE a \in rest : \A b \in rest \ {a} : Before(a, b)
                 IN  <<m>> \o pick(rest \ {m})
    IN  pick(0..(n - 1))

\* A variant that selects one channel more than round(n * ratio).
CalPrunedIdxOneMore(criterion, tie, t, ratio, axis) ==
    [err |-> IF criterion # "l1_norm" THEN "UnboundLocalError" ELSE "none",
     idx |-> SubSeq(ArgSort([c \in 1..t.shape[axis + 1] |-> L1Score(t, axis, c - 1)],
                            tie),
                    1, Round(t.shape[axis + 1], ratio) + 1)]

\* _cal_pruned_idx(name, param, ratio, axis): [err, idx].  `criterions` is
\* bound only under criterion 'l1_norm'; any other criterion reads it unbound.
CalPrunedIdx(criterion, tie, t, ratio, axis) ==
    LET n         == t.shape[axis + 1]
        prune_num == Round(n, ratio)
    IN  IF criterion # "l1_norm"
          THEN [err |-> "UnboundLocalError", idx |-> <<>>]
          ELSE [err |-> "none",
                idx |-> SubSeq(ArgSort([c \in 1..n |-> L1Score(t, axis, c - 1)], tie),
                               1, prune_num)]

\* ------------------------------------------------------------------------
\* The state one prune call works on, threaded through the calls it makes
\* ------------------------------------------------------------------------
\*   shape   name -> the shape the graph records for the variable
\*   scope   name -> the array the scope holds for it
\*   reg     self.pruned_list: <<names pruned on axis 0, names pruned on axis 1>>
\*   vbak    param_backup, sbak: param_shape_backup (dictionaries)
\*   err     the exception that is propagating, or "none"
\*   logged  the names _logger.error was called for
\*   mut     (history) every <<name, axis>> whose shape or array was set
\* O holds the options of the call and of the Pruner: lazy, only_graph,
\* param_backup, param_shape_backup (requested or not), criterion, tie.

Raise(S, e) == [S EXCEPT !.err = e]

\* `if backup is not None and (name not in backup): backup[name] = v`
Backup(dict, wanted, name, v) ==
    IF wanted /\ name \notin DOMAIN dict THEN (name :> v) @@ dict ELSE dict

\* What a backup dictionary holds: a copy of an array, or a list of ints.
ArrayVal(t) == [kind |-> "ndarray", v |-> t]
ListVal(l)  == [kind |-> "list", v |-> Tensor(<<Len(l)>>, l)]

\* _prune_parameter_by_idx, lines 188-198: one param of the only_graph loop.
ByIdxGraphOnly(S, O, name, pruned_num, pruned_axis) ==
    IF S.err # "none" THEN S
    ELSE
      LET ori_shape == S.shape[name]
          S1 == [S EXCEPT !.vbak = Backup(@, O.param_backup, name, ListVal(ori_shape))]
      IN  IF pruned_axis >= Len(ori_shape) THEN Raise(S1, "IndexError")
          ELSE [S1 EXCEPT
                  !.shape[name] = [ori_shape EXCEPT ![pruned_axis + 1] = @ - pruned_num],
                  !.reg[pruned_axis + 1] = Append(@, name),
                  !.mut = Append(@, <<name, pruned_axis>>)]

\* _prune_parameter_by_idx, lines 201-222: one param of the scope loop.
ByIdxInScope(S, O, name, pruned_idx, pruned_axis) ==
    IF S.err # "none" THEN S
    ELSE IF name \notin DOMAIN S.scope THEN Raise(S, "AttributeError")
    ELSE
      LET param_t == S.scope[name]
          S1 == [S EXCEPT !.vbak = Backup(@, O.param_backup, name, ArrayVal(param_t))]
          r  == PruneTensor(param_t, pruned_idx, pruned_axis, O.lazy)
      IN  IF r.err # "none" THEN Raise(S1, r.err)
          ELSE
            LET S2 == [S1 EXCEPT
                         !.scope[name] = r.t,
                         !.sbak = Backup(@, O.param_shape_backup, name, S.shape[name]),
                         !.mut = Append(@, <<name, pruned_axis>>)]
            IN  IF pruned_axis >= Len(S.shape[name]) THEN Raise(S2, "IndexError")
                ELSE [S2 EXCEPT
                        !.shape[name] = [@ EXCEPT ![pruned_axis + 1] =
                                                     r.t.shape[pruned_axis + 1]],
                        !.reg[pruned_axis + 1] = Append(@, name)]

\* A variant that prunes again a parameter the registry already holds.
PruneParameterByIdxNoGuard(S, O, params, pruned_idx, pruned_axis) ==
    IF S.err # "none" THEN S
    ELSE IF O.only_graph
      THEN FoldL(LAMBDA a, nm : ByIdxGraphOnly(a, O, nm, Len(pruned_idx), pruned_axis),
                 S, params)
      ELSE FoldL(LAMBDA a, nm : ByIdxInScope(a, O, nm, pruned_idx, pruned_axis),
                 S, params)

\* _prune_parameter_by_idx(scope, params, pruned_idx, pruned_axis, ...).
PruneParameterByIdx(S, O, params, pruned_idx, pruned_axis) ==
    IF S.err # "none" THEN S
    ELSE IF params[1] \in Range(S.reg[pruned_axis + 1]) THEN S
    ELSE IF O.only_graph
      THEN FoldL(LAMBDA a, nm : ByIdxGraphOnly(a, O, nm, Len(pruned_idx), pruned_axis),
                 S, params)
      ELSE FoldL(LAMBDA a, nm : ByIdxInScope(a, O, nm, pruned_idx, pruned_axis),
                 S, params)

\* _prune_filters_by_ratio, lines 112-122: one param of the only_graph loop.
\* The original shape goes to param_backup; param_shape_backup is not written.
ByRatioGraphOnly(S, O, name, pruned_num) ==
    IF S.err # "none" THEN S
    ELSE
      LET ori_shape == S.shape[name]
          S1 == [S EXCEPT !.vbak = Backup(@, O.param_backup, name, ListVal(ori_shape))]
      IN  IF Len(ori_shape) = 0 THEN Raise(S1, "IndexError")
          ELSE [S1 EXCEPT
                  !.shape[name] = [ori_shape EXCEPT ![1] = @ - pruned_num],
                  !.reg[1] = Append(@, name),
                  !.mut = Append(@, <<name, 0>>)]

\* _prune_filters_by_ratio, lines 130-158: one param of the scope loop.  acc
\* is [S, bound, pruned_param]: the local pruned_param survives from the
\* previous iteration when _prune_tensor raises the IndexError caught here.
ByRatioInScope(acc, O, name, pruned_idx) ==
    LET S == acc.S IN
    IF S.err # "none" THEN acc
    ELSE IF name \notin DOMAIN S.scope THEN [acc EXCEPT !.S = Raise(S, "AttributeError")]
    ELSE
      LET param_t == S.scope[name]
          S1 == [S EXCEPT !.vbak = Backup(@, O.param_backup, name, ArrayVal(param_t))]
          r  == PruneTensor(param_t, pruned_idx, 0, O.lazy)
          S2 == IF IsIndexError(r.err)
                  THEN [S1 EXCEPT !.logged = Append(@, name)] ELSE S1
          bound == r.err = "none" \/ acc.bound
          pruned_param == IF r.err = "none" THEN r.t ELSE acc.pruned_param
      IN  IF r.err # "none" /\ ~IsIndexError(r.err)
            THEN [acc EXCEPT !.S = Raise(S1, r.err)]
          ELSE IF ~bound
            THEN [acc EXCEPT !.S = Raise(S2, "UnboundLocalError")]
          ELSE
            LET S3 == [S2 EXCEPT
                         !.scope[name] = pruned_param,
                         !.sbak = Backup(@, O.param_shape_backup, name, S.shape[name]),
                         !.mut = Append(@, <<name, 0>>)]
            IN  IF Len(S.shape[name]) = 0 \/ Len(pruned_param.shape) = 0
                  THEN [acc EXCEPT !.S = Raise(S3, "IndexError")]
                ELSE [S |-> [S3 EXCEPT
                               !.shape[name] = [@ EXCEPT ![1] = pruned_param.shape[1]],
                               !.reg[1] = Append(@, name)],
                      bound |-> TRUE,
                      pruned_param |-> pruned_param]

\* _prune_filters_by_ratio(scope, params, ratio, ...): [S, ret]; ret is the
\* returned index list, or "None" after the early return.
PruneFiltersByRatio(S, O, params, ratio) ==
    IF S.err # "none" THEN [S |-> S, ret |-> "None"]
    ELSE IF params[1] \in Range(S.reg[1]) THEN [S |-> S, ret |-> "None"]
    ELSE IF O.only_graph
      THEN
        LET pruned_num == Round(S.shape[params[1]][1], ratio)
        IN  [S   |-> FoldL(LAMBDA a, nm : ByRatioGraphOnly(a, O, nm, pruned_num),
                           S, params),
             ret |-> [k \in 1..pruned_num |-> k - 1]]
    ELSE IF params[1] \notin DOMAIN S.scope
      THEN [S |-> Raise(S, "AttributeError"), ret |-> "None"]
    ELSE
      LET c == CalPrunedIdx(O.criterion, O.tie, S.scope[params[1]], ratio, 0)
      IN  IF c.err # "none" THEN [S |-> Raise(S, c.err), ret |-> "None"]
          ELSE
            [S   |-> FoldL(LAMBDA a, nm : ByRatioInScope(a, O, nm, c.idx),
                           [S |-> S, bound |-> FALSE,
                            pruned_param |-> Tensor(<<>>, <<>>)],
                           params).S,
             ret |-> c.idx]

\* ------------------------------------------------------------------------
\* Pruner._forward_search_related_op
\* ------------------------------------------------------------------------

\* _get_next_unvisited_op(graph, visited, top_op).
GetNextUnvisitedOp(G, visited, k) ==
    SelectSeq(NextOps(G, k), LAMBDA p : p \notin visited /\ ~IsBwdOp(G.ops[p]))

\* A variant that appends every operator of next_ops without looking it up
\* in visited.
PushUnchecked(st, next_ops) ==
    FoldL(LAMBDA a, p :
            [visited |-> a.visited \cup {p},
             stack   |-> Append(a.stack, p),
             path    |-> Append(a.path, p)],
          st, next_ops)

\* `for next_op in next_ops: if visited[next_op.idx()] == False: ...`
\* st is [visited, stack, path].
PushUnvisited(st, next_ops) ==
    FoldL(LAMBDA a, p :
            IF p \in a.visited THEN a
            ELSE [visited |-> a.visited \cup {p},
                  stack   |-> Append(a.stack, p),
                  path    |-> Append(a.path, p)],
          st, next_ops)

\* Lines 256-271: the worklist loop; stack.pop(0) takes the oldest entry.
RECURSIVE DrainStack(_, _)
DrainStack(G, st) ==
    IF st.stack = <<>> THEN st.path
    ELSE
      LET top_op == Head(st.stack)
          st1    == [st EXCEPT !.stack = Tail(@)]
      IN  IF G.ops[top_op].type \in {"conv2d", "deformable_conv", "mul", "concat"}
            THEN DrainStack(G, st1)
            ELSE DrainStack(G, PushUnvisited(st1,
                                 GetNextUnvisitedOp(G, st1.visited, top_op)))

\* _forward_search_related_op(graph, node); node is [var |-> name] for a
\* VarWrapper and [op |-> index] for an OpWrapper.  Returns visit_path.
ForwardSearchRelatedOp(G, node) ==
    LET st0 == [visited |-> {}, stack |-> <<>>, path |-> <<>>]
    IN  IF "var" \in DOMAIN node
          THEN DrainStack(G,
                 FoldL(LAMBDA a, k :
                         IF ~IsBwdOp(G.ops[k]) /\ node.var \in Range(G.ops[k].ins)
                           THEN PushUnvisited([a EXCEPT !.visited = @ \cup {k}],
                                              GetNextUnvisitedOp(G, a.visited, k))
                           ELSE a,
                       st0, Idxs(Len(G.ops))))
          ELSE DrainStack(G, PushUnvisited(st0, GetNextUnvisitedOp(G, {}, node.op)))

\* _get_accumulator(graph, param): the persistable outputs, other than the
\* parameter, of the optimizer operators that read it.
GetAccumulator(G, name) ==
    Flatten([j \in 1..Len(VarOutputs(G, name)) |->
        LET op == G.ops[VarOutputs(G, name)[j]]
        IN  IF IsOptOp(op)
              THEN SelectSeq(op.outs, LAMBDA v : v \in G.persist /\ v # name)
              ELSE <<>>])

\* ------------------------------------------------------------------------
\* Pruner._prune_ops: the rule of each operator type
\* ------------------------------------------------------------------------

\* Prune every parameter among the op's inputs on `axis`, each with its
\* accumulators.
PruneOpParams(S, O, G, k, pruned_idxs, axis) ==
    FoldL(LAMBDA a, in_var :
            IF in_var \in G.params
              THEN PruneParameterByIdx(a, O, <<in_var>> \o GetAccumulator(G, in_var),
                                       pruned_idxs, axis)
              ELSE a,
          S, G.ops[k].ins)

\* A variant of the mul rule that prunes the weight with the incoming
\* channel indices as they are.
PruneMulNoRemap(S, O, G, k, pruned_idxs) ==
    LET prm == SelectSeq(G.ops[k].ins, LAMBDA v : v \in G.params)
    IN  PruneParameterByIdx(S, O,
                            <<prm[Len(prm)]>> \o GetAccumulator(G, prm[Len(prm)]),
                            pruned_idxs, 0)

\* Lines 418-441: the mul (fully connected) rule.
PruneMul(S, O, G, k, pruned_idxs) ==
    LET ins      == G.ops[k].ins
        prm      == SelectSeq(ins, LAMBDA v : v \in G.params)
        oth      == SelectSeq(ins, LAMBDA v : v \notin G.params)
    IN  IF oth = <<>> THEN Raise(S, "AttributeError")
        ELSE
          LET fc_input == oth[Len(oth)]
              fshape   == S.shape[fc_input]
          IN  IF Len(fshape) < 4 THEN Raise(S, "IndexError")
              ELSE IF prm = <<>> THEN Raise(S, "AssertionError")
              ELSE
                LET fc_param == prm[Len(prm)]
                    feature_map_size == fshape[3] * fshape[4]
                    corrected_idxs ==
                        Flatten([j \in 1..Len(pruned_idxs) |->
                                   [r \in 1..feature_map_size |->
                                      (r - 1) + pruned_idxs[j] * feature_map_size]])
                IN  PruneParameterByIdx(S, O, <<fc_param>> \o GetAccumulator(G, fc_param),
                                        corrected_idxs, 0)

\* Lines 444-453: the position among the concat's inputs of an output of
\* the last operator of `ops` that has one; 0 stands for None.
RECURSIVE ConcatIdx(_, _, _, _)
ConcatIdx(G, ops, concat_inputs, j) ==
    IF j = 0 THEN 0
    ELSE
      LET hits == SelectSeq(G.ops[ops[j]].outs, LAMBDA v : v \in Range(concat_inputs))
      IN  IF hits # <<>> THEN IndexOf(concat_inputs, hits[1])
          ELSE ConcatIdx(G, ops, concat_inputs, j - 1)

\* A variant of the batch_norm rule that leaves the shift (beta) alone.
PruneBatchNormNoBeta(S, O, G, k, pruned_idxs) ==
    LET bn_inputs == G.ops[k].ins
    IN  FoldL(LAMBDA a, v :
                PruneParameterByIdx(a, O, <<v>> \o GetAccumulator(G, v),
                                    pruned_idxs, 0),
              S, <<bn_inputs[2], bn_inputs[4], bn_inputs[3]>>)

\* Lines 473-508: the batch_norm rule; the inputs are taken by position.
PruneBatchNorm(S, O, G, k, pruned_idxs) ==
    LET bn_inputs == G.ops[k].ins
    IN  IF Len(bn_inputs) < 4 THEN Raise(S, "IndexError")
        ELSE
          LET beta == bn_inputs[1]
              mean == bn_inputs[2]
              alpha == bn_inputs[3]
              variance == bn_inputs[4]
          IN  FoldL(LAMBDA a, v :
                      PruneParameterByIdx(a, O, <<v>> \o GetAccumulator(G, v),
                                          pruned_idxs, 0),
                    S, <<mean, variance, alpha, beta>>)

\* _prune_ops(ops, pruned_idxs, graph, ...).
RECURSIVE PruneOps(_, _, _, _, _)
PruneOps(S, O, G, ops, pruned_idxs) ==
    FoldL(LAMBDA a, k :
            LET type == G.ops[k].type IN
            IF a.err # "none" THEN a
            ELSE IF type \in {"conv2d", "deformable_conv"}
              THEN PruneOpParams(a, O, G, k, pruned_idxs, 1)
            ELSE IF type = "depthwise_conv2d"
              THEN PruneOpParams(a, O, G, k, pruned_idxs, 0)
            ELSE IF type = "elementwise_add"
              THEN PruneOpParams(a, O, G, k, pruned_idxs, 0)
            ELSE IF type = "mul"
              THEN PruneMul(a, O, G, k, pruned_idxs)
            ELSE IF type = "concat"
              THEN
                LET concat_inputs == G.ops[k].ins
                    concat_idx == ConcatIdx(G, ops, concat_inputs, Len(ops))
                IN  IF concat_idx = 0 THEN Raise(a, "TypeError")
                    ELSE
                      LET offset == SumSeq([ci \in 1..(concat_idx - 1) |->
                                              a.shape[concat_inputs[ci]][2]])
                          corrected_idxs == [j \in 1..Len(pruned_idxs) |->
                                               pruned_idxs[j] + offset]
                          related_ops == ForwardSearchRelatedOp(G, [op |-> k])
                      IN  PruneOps(a, O, G, related_ops, corrected_idxs)
            ELSE IF type = "batch_norm"
              THEN PruneBatchNorm(a, O, G, k, pruned_idxs)
            ELSE a,
          S, ops)

\* ------------------------------------------------------------------------
\* Pruner._forward_pruning_ralated_params and Pruner._search_brother_ops
\* ------------------------------------------------------------------------

\* _forward_pruning_ralated_params(graph, scope, param, place, ratio=ratio).
ForwardPruningRelatedParams(S, O, G, param, ratio) ==
    IF S.err # "none" THEN S
    ELSE IF param \in Range(S.reg[1]) THEN S
    ELSE
      LET related_ops == ForwardSearchRelatedOp(G, [var |-> param])
          r == PruneFiltersByRatio(S, O, <<param>> \o GetAccumulator(G, param), ratio)
      IN  IF r.S.err # "none" THEN r.S
          ELSE PruneOps(r.S, O, G, related_ops, r.ret)

\* The type tests of _search_brother_ops are substring tests.
HasConv2d(op) == op.type \in {"conv2d", "depthwise_conv2d", "conv2d_transpose",
                              "conv2d_grad", "depthwise_conv2d_grad"}
HasConcat(op) == op.type \in {"concat", "concat_grad"}
HasDeformableConv(op) == op.type \in {"deformable_conv", "deformable_conv_grad"}

\* An operator the sibling walk passes through.
WalkThrough(op) ==
    /\ ~HasConv2d(op) /\ ~HasConcat(op) /\ ~HasDeformableConv(op)
    /\ op.type # "fc" /\ ~IsBwdOp(op) /\ ~IsOptOp(op)

\* Lines 593-617: the walk; stack.pop() takes the newest entry.
\* st is [visited, stack, brothers], visited a list as in the code.
RECURSIVE BrotherWalk(_, _)
BrotherWalk(G, st) ==
    IF st.stack = <<>> THEN st.brothers
    ELSE
      LET top_op == st.stack[Len(st.stack)]
          st1 == [st EXCEPT !.stack = SubSeq(@, 1, Len(@) - 1)]
          st2 == FoldL(LAMBDA a, parent :
                         IF /\ parent \notin Range(a.visited)
                            /\ ~IsBwdOp(G.ops[parent]) /\ ~IsOptOp(G.ops[parent])
                           THEN
                             IF \/ HasConv2d(G.ops[parent])
                                \/ HasDeformableConv(G.ops[parent])
                                \/ G.ops[parent].type = "fc"
                               THEN [a EXCEPT !.brothers = Append(@, parent),
                                              !.visited = Append(@, parent)]
                               ELSE [a EXCEPT !.stack = Append(@, parent),
                                              !.visited = Append(@, parent)]
                           ELSE a,
                       st1, PreOps(G, top_op))
          st3 == FoldL(LAMBDA a, child :
                         IF WalkThrough(G.ops[child]) /\ child \notin Range(a.visited)
                           THEN [a EXCEPT !.stack = Append(@, child),
                                          !.visited = Append(@, child)]
                           ELSE a,
                       st2, NextOps(G, top_op))
      IN  BrotherWalk(G, st3)

\* _search_brother_ops(graph, op_node).
SearchBrotherOps(G, op_node) ==
    BrotherWalk(G,
      FoldL(LAMBDA a, k :
              IF WalkThrough(G.ops[k])
                THEN [a EXCEPT !.stack = Append(@, k), !.visited = Append(@, k)]
                ELSE a,
            [visited |-> <<op_node>>, stack |-> <<>>, brothers |-> <<>>],
            NextOps(G, op_node)))

\* ------------------------------------------------------------------------
\* Pruner._prune_parameters: one iteration of the loop over the requests
\* ------------------------------------------------------------------------

\* Lines 553-569: the same ratio for the parameters of every sibling of
\* every conv2d / deformable_conv that reads the requested parameter.
PruneBrothers(S, O, G, param, ratio) ==
    FoldL(LAMBDA a, k :
            IF G.ops[k].type \in {"conv2d", "deformable_conv"}
              THEN FoldL(LAMBDA b, brother :
                           IF b.err # "none" THEN b
                           ELSE IF GetParamByOp(G, brother) = <<>>
                             THEN Raise(b, "AssertionError")
                           ELSE FoldL(LAMBDA c, q :
                                        ForwardPruningRelatedParams(c, O, G, q, ratio),
                                      b, GetParamByOp(G, brother)),
                         a, SearchBrotherOps(G, k))
              ELSE a,
          S, VarOutputs(G, param))

\* Lines 537-569: the body of the loop for one (param, ratio).
PruneOneRequest(S, O, G, param, ratio) ==
    IF S.err # "none" THEN S
    ELSE IF param \in Range(S.reg[1]) THEN S
    ELSE IF param \notin VarNames(G) THEN Raise(S, "ValueError")
    ELSE PruneBrothers(ForwardPruningRelatedParams(S, O, G, param, ratio),
                       O, G, param, ratio)

\* ------------------------------------------------------------------------
\* The state machine: one call of Pruner.prune on a constructed Pruner
\* ------------------------------------------------------------------------

VARIABLES
    graph,              \* the name of the program being pruned
    requests,           \* params and ratios, zipped: a list of [param, ratio]
    opt,                \* lazy, only_graph, param_backup, param_shape_backup
                        \* (as passed), self.criterion, and the build's tie order
    pc,                 \* "ready", "running", "returned" or "raised"
    i,                  \* the position in requests of the next request
    shape,              \* name -> the shape recorded in the graph
    scope,              \* name -> the array held by the scope
    groups,             \* op index -> the op's groups attribute
    pruned_list,        \* self.pruned_list
    param_backup,       \* the value backup dictionary
    param_shape_backup, \* the shape backup dictionary
    err,                \* the exception prune raised, or "none"
    logged,             \* the names _logger.error reported
    mut,                \* history: every <<name, axis>> that was set
    last                \* history: the request the last step handled

vars == <<graph, requests, opt, pc, i, shape, scope, groups, pruned_list,
          param_backup, param_shape_backup, err, logged, mut, last>>

Ratios == {0, 1, 2}

Criteria == {"l1_norm", "l2_norm"}

\* Every list of at most n requests over the graph's prunable parameters.
RECURSIVE RequestLists(_, _)
RequestLists(G, n) ==
    IF n = 0 THEN {<<>>}
    ELSE LET shorter == RequestLists(G, n - 1)
         IN  shorter \cup
             {Append(l, [param |-> p, ratio |-> r]) :
                l \in {x \in shorter : Len(x) = n - 1}, p \in G.targets, r \in Ratios}

\* The options of a call and the Pruner's criterion.  The tie order is read
\* only by _cal_pruned_idx under 'l1_norm' (never with only_graph), so it is
\* varied there alone; the backups, which no branch depends on, are
\* requested together or not at all, under the ascending tie order and the
\* supported criterion.
Options ==
    {o \in [lazy : BOOLEAN, only_graph : BOOLEAN, param_backup : BOOLEAN,
            param_shape_backup : BOOLEAN, criterion : Criteria,
            tie : {"asc", "desc"}] :
       /\ o.tie = "desc" => o.criterion = "l1_norm" /\ ~o.only_graph
       /\ (o.tie = "desc" \/ o.criterion # "l1_norm")
             => ~o.param_backup /\ ~o.param_shape_backup
       /\ o.param_backup = o.param_shape_backup}

\* What the graph and the scope hold before the call.
InitShape(G) == [n \in VarNames(G) |-> G.shapes[n]]
InitScope(G) == [n \in G.persist |-> Tensor(G.shapes[n], G.data[n] \o <<>>)]

\* Per graph: the request lists a caller may pass, and the initial state.
Setup ==
    FoldL(LAMBDA a, g :
            (g :> [requests |-> RequestLists(Graph(g), MaxReqs),
                   shape    |-> FoldL(LAMBDA b, n : (n :> InitShape(Graph(g))[n]) @@ b,
                                      <<>>, SetToSeq(VarNames(Graph(g)))),
                   scope    |-> FoldL(LAMBDA b, n : (n :> InitScope(Graph(g))[n]) @@ b,
                                      <<>>, SetToSeq(Graph(g).persist))]) @@ a,
          <<>>, SetToSeq(GraphNames))

\* History of the last request: its parameter and ratio, whether the loop
\* skipped it, and the parameter's axis-0 size and array just before it.
NoRequest == [param |-> "", ratio |-> 0, n |-> 0, skipped |-> TRUE,
              before |-> Tensor(<<>>, <<>>)]

\* Pruner.__init__ (lines 28-34) stores the criterion, whatever it is.
Init ==
    /\ graph \in GraphNames
    /\ requests \in Setup[graph].requests
    /\ opt \in Options
    /\ pc = "ready"
    /\ i = 1
    /\ shape = Setup[graph].shape
    /\ scope = Setup[graph].scope
    /\ groups = Graph(graph).groups
    /\ pruned_list = << <<>>, <<>> >>
    /\ param_backup = <<>>
    /\ param_shape_backup = <<>>
    /\ err = "none"
    /\ logged = <<>>
    /\ mut = <<>>
    /\ last = NoRequest

\* The state record the operators above work on.
CallState ==
    [shape |-> shape, scope |-> scope, reg |-> pruned_list, vbak |-> param_backup,
     sbak |-> param_shape_backup, err |-> err, logged |-> logged, mut |-> mut]

\* prune, lines 66-69, and _prune_parameters, lines 534-535: the registry
\* and the backups start empty.
PruneStart ==
    /\ pc = "ready"
    /\ pc' = "running"
    /\ i' = 1
    /\ pruned_list' = << <<>>, <<>> >>
    /\ param_backup' = <<>>
    /\ param_shape_backup' = <<>>
    /\ UNCHANGED <<graph, requests, opt, shape, scope, groups, err, logged, mut, last>>

\* _prune_parameters, lines 536-569: the next (param, ratio) of the loop.
PruneRequest ==
    /\ pc = "running"
    /\ i <= Len(requests)
    /\ \E rq \in {requests[i]} :
       \E S \in {PruneOneRequest(CallState, opt, Graph(graph), rq.param, rq.ratio)} :
           /\ shape' = S.shape
           /\ scope' = S.scope
           /\ pruned_list' = S.reg
           /\ param_backup' = S.vbak
           /\ param_shape_backup' = S.sbak
           /\ err' = S.err
           /\ logged' = S.logged
           /\ mut' = S.mut
           /\ pc' = IF S.err = "none" THEN "running" ELSE "raised"
           /\ last' = [param |-> rq.param, ratio |-> rq.ratio,
                       n |-> shape[rq.param][1],
                       skipped |-> rq.param \in Range(pruned_list[1]),
                       before |-> scope[rq.param]]
    /\ i' = i + 1
    /\ UNCHANGED <<graph, requests, opt, groups>>

\* A variant that leaves the groups attributes as they were.
FixGroupsSkipped(G, shp, grp) == grp

\* prune, lines 80-83: groups = the Filter's shape()[0], for every depthwise
\* convolution of the graph (Filter is the first input).
FixGroups(G, shp, grp) ==
    [k \in 1..Len(grp) |->
       IF G.ops[k].type \in {"depthwise_conv2d", "depthwise_conv2d_grad"}
         THEN shp[G.ops[k].ins[1]][1]
         ELSE grp[k]]

\* prune, lines 80-84: the groups fix-up, then return.
PruneReturn ==
    /\ pc = "running"
    /\ i > Len(requests)
    /\ groups' = FixGroups(Graph(graph), shape, groups)
    /\ pc' = "returned"
    /\ UNCHANGED <<graph, requests, opt, i, shape, scope, pruned_list, param_backup,
                   param_shape_backup, err, logged, mut, last>>

Next == PruneStart \/ PruneRequest \/ PruneReturn

Spec == Init /\ [][Next]_vars

\* ------------------------------------------------------------------------
\* Properties of the prune call
\* ------------------------------------------------------------------------

G0 == Graph(graph)

\* The forward operator that writes variable v; 0 when v is a graph input.
Producer(G, v) ==
    LET hits == SelectSeq(Idxs(Len(G.ops)),
                          LAMBDA k : v \in Range(G.ops[k].outs)
                                     /\ ~IsBwdOp(G.ops[k]) /\ ~IsOptOp(G.ops[k]))
    IN  IF hits = <<>> THEN 0 ELSE hits[1]

\* The channel count of activation v that the weights recorded in shp give:
\* a convolution yields its filter's axis-0 size, a concat the sum over its
\* inputs, any other operator the count of the activation it reads.
RECURSIVE ChannelsOf(_, _, _)
ChannelsOf(G, shp, v) ==
    LET k == Producer(G, v)
    IN  IF k = 0 THEN shp[v][2]
        ELSE IF G.ops[k].type \in {"conv2d", "depthwise_conv2d"}
          THEN shp[G.ops[k].ins[1]][1]
        ELSE IF G.ops[k].type = "concat"
          THEN SumSeq([j \in 1..Len(G.ops[k].ins) |->
                         ChannelsOf(G, shp, G.ops[k].ins[j])])
        ELSE ChannelsOf(G, shp,
               SelectSeq(G.ops[k].ins, LAMBDA x : x \notin G.persist)[1])

\* Every conv2d weight has as many input channels as its activation has.
ShapeConsistent(G, shp) ==
    \A k \in 1..Len(G.ops) :
       G.ops[k].type = "conv2d" =>
          shp[G.ops[k].ins[1]][2] = ChannelsOf(G, shp, G.ops[k].ins[2])

\* C1: after prune returns in hard mode, for any list of requests, every
\* conv2d weight's axis-1 size equals the post-prune channel count of the
\* activation it consumes; for two requested convolutions feeding one concat
\* the consumer's axis-1 size is the sum of the inputs' channel counts,
\* whatever the order of the requests.  (Violated: see C1_ConcatBothPruned.)
C1_ShapeConsistent ==
    (pc = "returned" /\ ~opt.lazy) => ShapeConsistent(G0, shape)

\* The state C1 fails in: both inputs of the concat were requested and the
\* consumer's axis 1 was cut once only.
C1_ConcatBothPruned ==
    /\ pc = "returned" /\ ~opt.lazy /\ graph = "concat" /\ Len(requests) = 2
    /\ requests[1].param # requests[2].param
    /\ requests[1].ratio > 0 /\ requests[2].ratio > 0
    /\ shape["D.w"][2] # shape["A.w"][1] + shape["B.w"][1]

\* What the graph and the scope held before the call.
Shape0 == Setup[graph].shape
Scope0 == Setup[graph].scope

\* The call is a single request for conv A of a chain, in hard mode.
ChainCase ==
    /\ graph \in {"chain", "chain32"} /\ pc = "returned" /\ ~opt.lazy
    /\ Len(requests) = 1 /\ requests[1].param = "A.w"

\* C2: for conv A (n filters) -> batch_norm -> conv B, a single request for
\* A's weight at ratio r in hard mode leaves n - round(n * r) on axis 0 of
\* A's weight and of the four batch_norm statistics and on axis 1 of B's
\* weight; B's axis 0 and every tensor downstream of B are unchanged.
C2_ChainPropagation ==
    ChainCase =>
      LET n == Shape0["A.w"][1]
          k == Round(n, requests[1].ratio)
      IN  /\ \A t \in {"A.w"} \cup BnNames("bn1") : shape[t][1] = n - k
          /\ shape["B.w"][2] = n - k
          /\ shape["B.w"][1] = Shape0["B.w"][1]
          /\ \A a \in 3..4 : shape["B.w"][a] = Shape0["B.w"][a]
          /\ \A t \in BnNames("bn2") : shape[t] = Shape0[t]
          /\ ~opt.only_graph =>
                /\ \A t \in {"A.w", "B.w"} \cup BnNames("bn1") :
                      scope[t].shape = shape[t]
                /\ \A t \in BnNames("bn2") : scope[t] = Scope0[t]

\* 32 filters at ratio 0.25: 24 remain, in the graph and in the scope.
C2_Chain32To24 ==
    /\ ChainCase /\ graph = "chain32" /\ requests[1].ratio = 1
    /\ ~opt.only_graph
    /\ scope["A.w"].shape[1] = 24 /\ shape["bn1.scale"] = <<24>>
    /\ scope["B.w"].shape = <<2, 24, 1, 1>>

\* The last step pruned its requested parameter (it was not skipped) and
\* raised nothing.
RequestDone ==
    /\ pc \in {"running", "returned"} /\ err = "none"
    /\ last.param # "" /\ ~last.skipped

\* The number of slices of t along `axis` that are entirely zero.
ZeroCount(t, axis) ==
    Cardinality({c \in 0..(t.shape[axis + 1] - 1) : ZeroSlice(t, axis, c)})

\* C3: for a requested parameter of size n on the pruned axis and a ratio r,
\* under every combination of the other options (only_graph included): with
\* lazy = false the size after the request is n - round(n * r); with lazy =
\* true the size stays n and exactly round(n * r) slices are entirely zero.
\* (Violated: see C3_LazyGraphOnlyShrinks.)
C3_SizeAfterPrune ==
    RequestDone =>
      LET n == last.n
          k == Round(n, last.ratio)
          p == last.param
      IN  IF ~opt.lazy
            THEN /\ shape[p][1] = n - k
                 /\ ~opt.only_graph => scope[p].shape[1] = n - k
            ELSE /\ shape[p][1] = n
                 /\ scope[p].shape[1] = n
                 /\ ZeroCount(scope[p], 0) = k

\* The state C3 fails in: lazy and only_graph together, and the graph
\* records fewer filters than before while the array is as it was.
C3_LazyGraphOnlyShrinks ==
    /\ RequestDone /\ opt.lazy /\ opt.only_graph /\ last.ratio > 0
    /\ shape[last.param][1] = last.n - Round(last.n, last.ratio)
    /\ shape[last.param][1] < last.n
    /\ scope[last.param] = last.before

\* No element occurs twice in the list.
NoDuplicates(l) == \A a, b \in 1..Len(l) : a # b => l[a] # l[b]

\* C4: within one call every (name, axis) pair is mutated at most once and
\* no name is recorded twice in one axis's registry; once a name is in the
\* registry for an axis, a later attempt on that name and axis (a duplicate
\* request, a sibling re-application, a cut arriving through propagation)
\* changes neither shapes nor values and raises nothing.
C4_MutatedOnce ==
    err = "none" =>
      /\ NoDuplicates(mut)
      /\ \A a \in 1..2 :
            /\ NoDuplicates(pruned_list[a])
            /\ \A nm \in Range(pruned_list[a]) :
                  /\ <<nm, a - 1>> \in Range(mut)
                  /\ PruneParameterByIdx(CallState, opt, <<nm>>, <<0>>, a - 1)
                       = CallState
      /\ \A nm \in Range(pruned_list[1]) :
            /\ PruneFiltersByRatio(CallState, opt, <<nm>>, 2).S = CallState
            /\ ForwardPruningRelatedParams(CallState, opt, G0, nm, 2) = CallState
            /\ PruneOneRequest(CallState, opt, G0, nm, 2) = CallState

\* Both inputs of the concat were requested: the second cut that reached
\* conv D through the concat was skipped.
C4_SecondAttemptSkipped ==
    /\ pc = "returned" /\ graph = "concat" /\ ~opt.only_graph /\ ~opt.lazy
    /\ Len(requests) = 2 /\ requests[1].ratio = 2 /\ requests[2].ratio = 2
    /\ requests[1].param # requests[2].param
    /\ mut = << <<requests[1].param, 0>>, <<"D.w", 1>>, <<requests[2].param, 0>> >>

\* The last step ran the l1_norm selection on the requested parameter's
\* array (last.before) at the requested ratio, on axis 0.
SelectionDone == RequestDone /\ ~opt.only_graph /\ opt.criterion = "l1_norm"

\* The index list the selection returned and the score of every channel.
Selection ==
    [idx    |-> CalPrunedIdx(opt.criterion, opt.tie, last.before, last.ratio, 0).idx,
     scores |-> [c \in 1..last.n |-> L1Score(last.before, 0, c - 1)] \o <<>>]

DepthwiseOps(G) ==
    {k \in 1..Len(G.ops) : G.ops[k].type \in {"depthwise_conv2d",
                                               "depthwise_conv2d_grad"}}

\* C6: when prune returns, the groups attribute of every depthwise
\* convolution equals the current axis-0 size of its Filter, whether the
\* filter was pruned by a direct request, by propagation from an upstream
\* convolution, or not at all.
C6_DepthwiseGroups ==
    pc = "returned" =>
      \A k \in DepthwiseOps(G0) :
         /\ groups[k] = shape[G0.ops[k].ins[1]][1]
         /\ ~opt.only_graph => groups[k] = scope[G0.ops[k].ins[1]].shape[1]

\* prune returned after the depthwise filter lost channels, and the groups
\* attribute followed.
C6_GroupsReduced ==
    /\ pc = "returned" /\ graph = "depthwise" /\ ~opt.only_graph
    /\ shape["dw.w"][1] < Shape0["dw.w"][1]
    /\ groups[3] = shape["dw.w"][1] /\ groups[3] # G0.groups[3]

\* C7: a Pruner constructed with a criterion other than 'l1_norm' does not
\* exist: construction raises, so prune never runs on one.  (Violated: see
\* C7_UnsupportedCriterionReturns.)
C7_CriterionChecked ==
    pc \in {"running", "returned", "raised"} => opt.criterion = "l1_norm"

\* prune ran to its return on a Pruner whose criterion is not supported.
C7_UnsupportedCriterionReturns ==
    /\ pc = "returned" /\ opt.criterion # "l1_norm"
    /\ Len(requests) > 0 /\ Len(mut) > 0

\* C8: an index of the cut set that is out of range for a dependent tensor
\* is logged and does not end the call (prune goes on with the remaining
\* requests and returns), and the tensor it was out of range for keeps its
\* own value: it is not overwritten with what was computed for another
\* tensor.  (Violated: see C8_AccumulatorOverwritten.)
C8_OutOfRangeContained ==
    /\ err # OutOfBounds
    /\ \A nm \in Range(logged) : scope[nm] = Scope0[nm]

\* The accumulator the index was out of range for holds the pruned array
\* of the parameter, and the same cut, out of range again for the bias's
\* accumulator, ended the call.
C8_AccumulatorOverwritten ==
    /\ graph = "adam" /\ pc = "raised" /\ err = OutOfBounds
    /\ requests[1].param = "A.w" /\ logged = <<"A.w.pow">>
    /\ scope["A.w.pow"] = scope["A.w"]
    /\ scope["A.w.pow"] # Scope0["A.w.pow"]

\* The names the call has mutated.
Mutated == {m[1] : m \in Range(mut)}

\* C9: when backups are requested, after prune returns, in every mode
\* (hard, lazy, only_graph), for every tensor the call mutated the shape
\* backup maps its name to the shape it had before the call and the value
\* backup maps its name to the values it had before the call.  (Violated:
\* see C9_ShapeInValueBackup.)
C9_BackupsOriginal ==
    pc = "returned" =>
      /\ opt.param_shape_backup =>
            \A nm \in Mutated :
               /\ nm \in DOMAIN param_shape_backup
               /\ param_shape_backup[nm] = Shape0[nm]
      /\ opt.param_backup =>
            \A nm \in Mutated :
               /\ nm \in DOMAIN param_backup
               /\ param_backup[nm] = ArrayVal(Scope0[nm])

\* Under only_graph the value backup holds a shape and the shape backup
\* holds nothing.
C9_ShapeInValueBackup ==
    /\ pc = "returned" /\ opt.only_graph
    /\ opt.param_backup /\ opt.param_shape_backup
    /\ Mutated # {} /\ param_shape_backup = <<>>
    /\ \A nm \in Mutated : param_backup[nm] = ListVal(Shape0[nm])

\* The state a call starts from, and the whole of a call for a request list.
StartState ==
    [shape |-> Shape0, scope |-> Scope0, reg |-> << <<>>, <<>> >>, vbak |-> <<>>,
     sbak |-> <<>>, err |-> "none", logged |-> <<>>, mut |-> <<>>]

RunCall(reqs) ==
    FoldL(LAMBDA a, rq : PruneOneRequest(a, opt, G0, rq.param, rq.ratio),
          StartState, reqs)

\* The list without its j-th element.
Without(l, j) == SubSeq(l, 1, j - 1) \o SubSeq(l, j + 1, Len(l))

\* The step about to be taken handles a request of ratio 0.
RatioZeroNext ==
    pc = "running" /\ i <= Len(requests) /\ requests[i].ratio = 0

\* C10 (amended): a request of ratio 0 changes no tensor's shape or values
\* when it is handled; unless it raises, its parameter is in the axis-0
\* registry afterwards (so a later request for it is skipped).
C10_RatioZeroStep ==
    [][RatioZeroNext =>
         /\ shape' = shape /\ scope' = scope
         /\ err' = "none" => requests[i].param \in Range(pruned_list'[1])]_vars

\* C10 (as stated): a request of ratio 0 is a no-op, and for any request
\* list the shapes and values the whole call produces are those of the call
\* with the ratio-0 request removed.
C10_RemovableRequest ==
    pc = "returned" =>
      \A j \in 1..Len(requests) :
         requests[j].ratio = 0 =>
           \A R \in {RunCall(Without(requests, j))} :
              shape = R.shape /\ scope = R.scope

\* A request of ratio 0 was handled, it reached other tensors, and the
\* request after it was skipped because of what it had recorded.
C10_RatioZeroBlocksLater ==
    /\ pc = "returned" /\ ~opt.only_graph /\ Len(requests) = 2
    /\ requests[1].ratio = 0 /\ requests[2].ratio > 0
    /\ last.skipped /\ Len(mut) > 1
    /\ shape = Shape0 /\ scope = Scope0

\* The whole of a call for a request list under the options O.
RunCallWith(O, reqs) ==
    FoldL(LAMBDA a, rq : PruneOneRequest(a, O, G0, rq.param, rq.ratio),
          StartState, reqs)

\* The call runs in hard mode on the scope, and its first i - 1 requests
\* were handled without an exception.
HardScopeRun ==
    /\ pc \in {"running", "returned"} /\ i > 1
    /\ ~opt.lazy /\ ~opt.only_graph /\ opt.criterion = "l1_norm"

\* C11: for any graph and request list, the shape the graph records for
\* every tensor after the requests handled so far with only_graph = false,
\* lazy = false equals the shape the same requests give with only_graph =
\* true, lazy = false, and the registry is the same in both runs after each
\* request.  (Violated: see C11_AccumulatorShapeDiffers.)
C11_GraphOnlyAgrees ==
    HardScopeRun =>
      \A R \in {RunCallWith([opt EXCEPT !.only_graph = TRUE],
                            SubSeq(requests, 1, i - 1))} :
         /\ R.err = "none"
         /\ shape = R.shape
         /\ pruned_list = R.reg

\* Both runs return with the same registry; the graph-only run records
\* 1 - 2 = -1 for the shape-[1] accumulator and the run on the scope
\* records the parameter's new size for it.
C11_AccumulatorShapeDiffers ==
    /\ HardScopeRun /\ pc = "returned" /\ graph = "adamtail"
    /\ Len(requests) = 1 /\ requests[1].ratio = 2
    /\ shape["A.w.pow"] = <<2>>
    /\ \E R \in {RunCallWith([opt EXCEPT !.only_graph = TRUE], requests)} :
         /\ R.err = "none" /\ R.reg = pruned_list
         /\ R.shape["A.w.pow"] = <<-1>>
         /\ \A nm \in DOMAIN shape : nm # "A.w.pow" => R.shape[nm] = shape[nm]

\* The forward search is a function of the graph and of the node it starts
\* from.  Per graph: the list it returns from every prunable parameter, and
\* the lists it returns from the concat operators.
VarSearches ==
    FoldL(LAMBDA a, g :
            (g :> FoldL(LAMBDA b, p :
                          (p :> ForwardSearchRelatedOp(Graph(g), [var |-> p])) @@ b,
                        <<>>, SetToSeq(Graph(g).targets))) @@ a,
          <<>>, SetToSeq(GraphNames))

OpSearches ==
    FoldL(LAMBDA a, g :
            (g :> FoldL(LAMBDA b, k :
                          IF Graph(g).ops[k].type = "concat"
                            THEN Append(b, ForwardSearchRelatedOp(Graph(g), [op |-> k]))
                            ELSE b,
                        <<>>, Idxs(Len(Graph(g).ops)))) @@ a,
          <<>>, SetToSeq(GraphNames))

\* The last step searched the operators related to its parameter.
SearchDone == last.param # "" /\ ~last.skipped

\* The list that search returned.
RelatedOps == VarSearches[graph][last.param]

\* The channels of activation v that are outputs of the filters idx of the
\* convolution weight p: a convolution of p yields idx and any other
\* convolution nothing, a concat shifts what each input carries by the
\* widths (in shp) of the inputs before it, and any other operator passes on
\* what the activation it reads carries.
RECURSIVE CutOf(_, _, _, _, _)
CutOf(G, shp, v, p, idx) ==
    LET k == Producer(G, v)
    IN  IF k = 0 THEN {}
        ELSE IF G.ops[k].ins[1] = p THEN idx
        ELSE IF G.ops[k].type \in {"conv2d", "deformable_conv", "mul"} THEN {}
        ELSE IF G.ops[k].type = "concat"
          THEN UNION {{c + SumSeq([a \in 1..(j - 1) |-> shp[G.ops[k].ins[a]][2]]) :
                         c \in CutOf(G, shp, G.ops[k].ins[j], p, idx)} :
                      j \in 1..Len(G.ops[k].ins)}
        ELSE CutOf(G, shp,
               SelectSeq(G.ops[k].ins, LAMBDA x : x \notin G.persist)[1], p, idx)

\* The first request of the call was handled, on the scope, and the forward
\* search from its parameter reaches a concat.
ConcatCase ==
    /\ pc # "ready" /\ i = 2 /\ ~opt.only_graph /\ opt.criterion = "l1_norm"
    /\ \E k \in Range(RelatedOps) : G0.ops[k].type = "concat"

\* C12: for every concat the cut reaches (directly from the pruned
\* convolution, through other operators, or from a previous concat) the
\* indices forwarded downstream are the incoming indices plus the sum of
\* the axis-1 widths of the concat inputs before the one the cut arrived
\* through, and nothing is raised: every convolution downstream loses
\* exactly those input channels.  (Violated: see C12_DirectInputRaises.)
C12_ConcatOffset ==
    ConcatCase =>
      /\ err = "none"
      /\ \A k \in 1..Len(G0.ops) :
            G0.ops[k].type = "conv2d" =>
              \A cut \in {CutOf(G0, Shape0, G0.ops[k].ins[2], last.param,
                                Range(Selection.idx))} :
                 scope[G0.ops[k].ins[1]] =
                    IF cut = {} \/ G0.ops[k].ins[1] = last.param
                      THEN scope[G0.ops[k].ins[1]]
                      ELSE PruneTensor(Scope0[G0.ops[k].ins[1]], SetToSeq(cut), 1,
                                       opt.lazy).t

\* The output of the pruned convolution is itself an input of the concat:
\* the weight was cut, no position was found for the concat, and prune
\* raised before the consumer of the concat was touched.
C12_DirectInputRaises ==
    /\ ConcatCase /\ graph = "direct" /\ pc = "raised" /\ err = "TypeError"
    /\ requests[1].ratio = 2 /\ ~opt.lazy
    /\ scope["A.w"].shape = <<1, 1, 1, 1>>
    /\ scope["D.w"] = Scope0["D.w"]

\* An operator of the forward pass.
IsFwdOp(op) == ~IsBwdOp(op) /\ ~IsOptOp(op)

\* The forward operators that read p, and every forward operator that
\* consumes an output of one of them, and so on.
RECURSIVE FwdClosure(_, _)
FwdClosure(G, reached) ==
    LET more == {q \in 1..Len(G.ops) :
                   /\ IsFwdOp(G.ops[q])
                   /\ \E k \in reached : q \in Range(NextOps(G, k))}
    IN  IF more \subseteq reached THEN reached
        ELSE FwdClosure(G, reached \cup more)

FwdReach(G, p) ==
    FwdClosure(G, {k \in 1..Len(G.ops) :
                     IsFwdOp(G.ops[k]) /\ p \in Range(G.ops[k].ins)})

\* C13: the list the forward search returns holds no backward-pass and no
\* optimizer operator, and every operator in it is reached from the forward
\* readers of the parameter through forward operators alone; also for a
\* parameter that is an input of an optimizer operator.  (Violated: see
\* C13_OptimizerInList.)
C13_ForwardOnly ==
    SearchDone =>
      \A reach \in {FwdReach(G0, last.param)} :
         \A k \in Range(RelatedOps) : IsFwdOp(G0.ops[k]) /\ k \in reach

\* The search from a parameter that an adam operator updates, after an
\* in-place scale of the parameter, returned the relu and the adam operator.
C13_OptimizerInList ==
    /\ SearchDone /\ graph = "adamtail" /\ last.param = "A.w"
    /\ RelatedOps = <<2, 5>>
    /\ IsOptOp(G0.ops[5]) /\ "A.w" \in Range(G0.ops[5].ins)

\* The list holds each operator of the graph at most once.
Deduplicated(G, path) ==
    /\ NoDuplicates(path)
    /\ Range(path) \subseteq 1..Len(G.ops)
    /\ Len(path) <= Len(G.ops)

\* C14: on every graph, those with diamonds, double edges and cycles
\* included, the forward search from the requested parameter and from every
\* concat operator ends, and the list it returns holds each operator at most
\* once.  The worklist loop runs once for every entry of the list, so the
\* length of the list bounds its iterations.
C14_SearchDeduplicated ==
    SearchDone =>
      /\ Deduplicated(G0, RelatedOps)
      /\ \A path \in Range(OpSearches[graph]) : Deduplicated(G0, path)

\* The search went through the diamond, the double edge and both cycles,
\* and listed the nine operators after conv A once each.
C14_DiamondSearched ==
    /\ SearchDone /\ graph = "diamond" /\ last.param = "A.w"
    /\ RelatedOps = <<2, 3, 4, 5, 6, 7, 8, 9, 10>>
    /\ Len(NextOps(G0, 6)) = 2 /\ 8 \in Range(NextOps(G0, 8))
    /\ 3 \in Range(NextOps(G0, 9))

\* The siblings of the last request's parameter p: the parameters of every
\* operator that _search_brother_ops returns for a conv2d or deformable_conv
\* that reads p.
Siblings ==
    UNION {UNION {Range(GetParamByOp(G0, b)) : b \in Range(SearchBrotherOps(G0, k))} :
           k \in {c \in Range(VarOutputs(G0, last.param)) :
                    G0.ops[c].type \in {"conv2d", "deformable_conv"}}}

\* C15: after a request has pruned the weight of a convolution at ratio r
\* (hard mode), the weight of every sibling is in the axis-0 registry and
\* has lost round(n * r) of its n original filters, so that a sibling with
\* as many original filters as the requested weight has as many filters
\* left; for every request list and order.  (Violated: see
\* C15_SiblingKeepsEarlierRatio.)
C15_SiblingsSameRatio ==
    (RequestDone /\ ~opt.lazy) =>
      \A q \in Siblings :
         /\ q \in Range(pruned_list[1])
         /\ shape[q][1] = Shape0[q][1] - Round(Shape0[q][1], last.ratio)
         /\ Shape0[q][1] = last.n => shape[q][1] = shape[last.param][1]

\* B is a sibling of A and of C.  B was cut with A at ratio 0.25; the
\* request for C at ratio 0.5 found B in the registry and left it: the two
\* inputs of the second add have 3 and 2 channels when prune returns.
C15_SiblingKeepsEarlierRatio ==
    /\ RequestDone /\ ~opt.lazy /\ pc = "returned" /\ graph = "sibling3"
    /\ requests = << [param |-> "A.w", ratio |-> 1], [param |-> "C.w", ratio |-> 2] >>
    /\ Siblings = {"B.w"}
    /\ shape["A.w"][1] = 3 /\ shape["B.w"][1] = 3 /\ shape["C.w"][1] = 2
    /\ shape["E.w"][2] = 3

\* The first request of the call was handled without an exception.
FirstRequestDone == pc # "ready" /\ i = 2 /\ err = "none"

\* The channel indices the first request cut from its parameter: the
\* selected ones, or range(round(n * r)) under only_graph.
Incoming ==
    IF opt.only_graph THEN 0..(Round(last.n, last.ratio) - 1)
    ELSE Range(Selection.idx)

\* C16: for a mul operator reached by propagation whose non-parameter input
\* has the spatial size S = height * width, the weight is pruned on axis 0
\* with exactly the union over the incoming channel indices c of the ranges
\* [c * S, (c + 1) * S): in hard mode its axis-0 size shrinks by S times the
\* number of incoming indices.
C16_FcRemap ==
    FirstRequestDone =>
      \A k \in Range(RelatedOps) :
         G0.ops[k].type = "mul" =>
           \A fc_input \in Range(G0.ops[k].ins) \ G0.params :
           \A fc_param \in Range(G0.ops[k].ins) \cap G0.params :
           \A cut \in {Incoming} :
              LET S == Shape0[fc_input][3] * Shape0[fc_input][4]
                  expanded == UNION {(c * S)..((c + 1) * S - 1) : c \in cut}
              IN  /\ Cardinality(expanded) = S * Cardinality(cut)
                  /\ ~opt.lazy =>
                        shape[fc_param][1] = Shape0[fc_param][1] - S * Cardinality(cut)
                  /\ ~opt.only_graph =>
                        /\ scope[fc_param] =
                             PruneTensor(Scope0[fc_param], SetToSeq(expanded), 0,
                                         opt.lazy).t
                        /\ opt.lazy =>
                              \A c \in expanded : ZeroSlice(scope[fc_param], 0, c)

\* A 3 x 3 feature map (S = 9) and the incoming indices {0, 2}: rows 0..8 and
\* 18..26 of the 36 rows of the weight were removed.
C16_Fc9Expanded ==
    /\ FirstRequestDone /\ graph = "fc9" /\ ~opt.only_graph /\ ~opt.lazy
    /\ last.ratio = 2 /\ Range(Selection.idx) = {0, 2}
    /\ shape["fc.w"] = <<18, 1>>
    /\ scope["fc.w"] = Tensor(<<18, 1>>, SubSeq(Scope0["fc.w"].data, 10, 18)
                                          \o SubSeq(Scope0["fc.w"].data, 28, 36))

====
